---- MODULE Spec2Model ----
(***************************************************************************)
(* The particle simulation of src/app/page.tsx (the animate callback and   *)
(* getMagneticFieldVector) as a state machine.                             *)
(*                                                                         *)
(* Numbers.  A JavaScript number / Float32Array element is modelled as a   *)
(* fixed-point integer with SCALE units per 1.0, together with the three   *)
(* IEEE special values NaN, +Infinity and -Infinity, which follow the IEEE *)
(* rules (Inf - Inf = NaN, Inf * 0 = NaN, x / 0 = +-Inf, 0 / 0 = NaN, any  *)
(* comparison with NaN is false).  Rounding is towards zero, which like    *)
(* IEEE rounding is symmetric under a change of sign.  Signed zeros are    *)
(* not distinguished.                                                      *)
(***************************************************************************)
EXTENDS Integers, Sequences, FiniteSets, TLC

\* Fixed-point units per 1.0.
SCALE == 1000

\* IEEE special values, encoded outside the range of the finite values.
PosInf == 2147483646
NegInf == -PosInf
NaN == 2147483647

isNaN(a) == a = NaN
IsInf(a) == a = PosInf \/ a = NegInf
IsFinite(a) == ~isNaN(a) /\ ~IsInf(a)

Abs(a) == IF a < 0 THEN -a ELSE a
Sgn(a) == IF a > 0 THEN 1 ELSE IF a < 0 THEN -1 ELSE 0

\* Integer quotient rounded towards zero (b # 0).
Quot(a, b) == Sgn(a) * Sgn(b) * (Abs(a) \div Abs(b))

\* Floor of the square root of a natural number below 2^31, by Newton's
\* iteration from a guess above the root.
RECURSIVE Newton(_, _)
Newton(n, g) ==
    LET h == (g + n \div g) \div 2
    IN IF h >= g THEN g ELSE Newton(n, h)
ISqrt(n) ==
    IF n = 0 THEN 0
    ELSE Newton(n, IF n < 10000 THEN 100
                   ELSE IF n < 1000000 THEN 1000
                   ELSE IF n < 100000000 THEN 10000
                   ELSE 46341)

\* -a
Neg(a) == IF isNaN(a) THEN NaN ELSE -a

\* a + b
Add(a, b) ==
    IF isNaN(a) \/ isNaN(b) THEN NaN
    ELSE IF IsInf(a) THEN (IF b = -a THEN NaN ELSE a)
    ELSE IF IsInf(b) THEN b
    ELSE a + b

\* a - b
Sub(a, b) == Add(a, Neg(b))

\* a * b.  The finite product is formed in two parts so that no intermediate
\* value leaves the integer range.
Mul(a, b) ==
    IF isNaN(a) \/ isNaN(b) THEN NaN
    ELSE IF IsInf(a) \/ IsInf(b) THEN
        (IF a = 0 \/ b = 0 THEN NaN
         ELSE IF Sgn(a) * Sgn(b) > 0 THEN PosInf ELSE NegInf)
    ELSE LET q == Quot(a, SCALE)
             r == a - q * SCALE
         IN q * b + Quot(r * b, SCALE)

\* a / b
Div(a, b) ==
    IF isNaN(a) \/ isNaN(b) THEN NaN
    ELSE IF IsInf(a) THEN
        (IF IsInf(b) THEN NaN
         ELSE IF Sgn(a) * (IF b < 0 THEN -1 ELSE 1) > 0 THEN PosInf ELSE NegInf)
    ELSE IF IsInf(b) THEN 0
    ELSE IF b = 0 THEN
        (IF a = 0 THEN NaN ELSE IF a > 0 THEN PosInf ELSE NegInf)
    ELSE LET q == Quot(a, b)
             r == a - q * b
         IN q * SCALE + Quot(r * SCALE, b)

\* a < b and a > b: false as soon as one side is NaN.
Lt(a, b) == ~isNaN(a) /\ ~isNaN(b) /\ a < b
Gt(a, b) == Lt(b, a)

\* Math.min(a, b) and Math.max(a, b): NaN as soon as one side is NaN.
MathMin(a, b) == IF isNaN(a) \/ isNaN(b) THEN NaN ELSE IF a < b THEN a ELSE b
MathMax(a, b) == IF isNaN(a) \/ isNaN(b) THEN NaN ELSE IF a > b THEN a ELSE b

\* Math.sqrt(a)
Sqrt(a) ==
    IF isNaN(a) \/ a < 0 THEN NaN
    ELSE IF a = PosInf THEN PosInf
    ELSE ISqrt(a * SCALE)

\* Math.sin(a) and Math.cos(a): the Taylor polynomials of degree 7 and 8 in
\* Horner form (a2 is a * a), accurate to a few units for |a| <= 1.6; NaN
\* for a non-finite argument.
SinSeries(a, a2) ==
    Mul(a, SCALE - Quot(Mul(a2, SCALE - Quot(Mul(a2, SCALE - Quot(a2, 42)), 20)), 6))
Sin(a) == IF ~IsFinite(a) THEN NaN ELSE SinSeries(a, Mul(a, a))

CosSeries(a2) ==
    SCALE - Quot(Mul(a2, SCALE - Quot(Mul(a2, SCALE - Quot(Mul(a2,
        SCALE - Quot(a2, 56)), 30)), 12)), 2)
Cos(a) == IF ~IsFinite(a) THEN NaN ELSE CosSeries(Mul(a, a))

\* Math.exp(a) for a <= 0 (the only sign the program passes): e^a as the 8th
\* power of the degree-4 Taylor polynomial of e^(a/8); 0 below -16.
Square(a) == Mul(a, a)
ExpSeries(h) ==
    SCALE + Mul(h, SCALE + Quot(Mul(h, SCALE + Quot(Mul(h, SCALE + Quot(h, 4)), 3)), 2))
Exp(a) ==
    IF isNaN(a) THEN NaN
    ELSE IF a = PosInf THEN PosInf
    ELSE IF a < -16 * SCALE THEN 0
    ELSE Square(Square(Square(ExpSeries(Quot(a, 8)))))

(***************************************************************************)
(* THREE.Vector3, as the record [x, y, z].                                 *)
(***************************************************************************)
Vector3(a, b, c) == [x |-> a, y |-> b, z |-> c]
Zero3 == Vector3(0, 0, 0)

\* Vector3.length(): Math.sqrt(x*x + y*y + z*z).  The squares are summed at
\* full resolution (SCALE * SCALE units per 1.0) before the root is taken.
Length(v) ==
    IF isNaN(v.x) \/ isNaN(v.y) \/ isNaN(v.z) THEN NaN
    ELSE IF IsInf(v.x) \/ IsInf(v.y) \/ IsInf(v.z) THEN PosInf
    ELSE ISqrt(v.x * v.x + v.y * v.y + v.z * v.z)

VAdd(v, w) == Vector3(Add(v.x, w.x), Add(v.y, w.y), Add(v.z, w.z))
VSub(v, w) == Vector3(Sub(v.x, w.x), Sub(v.y, w.y), Sub(v.z, w.z))
VNeg(v) == Vector3(Neg(v.x), Neg(v.y), Neg(v.z))
MultiplyScalar(v, s) == Vector3(Mul(v.x, s), Mul(v.y, s), Mul(v.z, s))
\* Vector3.divideScalar(s) is multiplyScalar(1 / s); the quotient is formed
\* directly, which agrees with it on every special value.
DivideScalar(v, s) == Vector3(Div(v.x, s), Div(v.y, s), Div(v.z, s))
Dot(v, w) == Add(Add(Mul(v.x, w.x), Mul(v.y, w.y)), Mul(v.z, w.z))
Cross(v, w) ==
    Vector3(Sub(Mul(v.y, w.z), Mul(v.z, w.y)),
            Sub(Mul(v.z, w.x), Mul(v.x, w.z)),
            Sub(Mul(v.x, w.y), Mul(v.y, w.x)))
\* Vector3.normalize(): divideScalar(length() || 1); 0 and NaN are falsy.
OrOne(len) == IF len = 0 \/ isNaN(len) THEN SCALE ELSE len
Normalize(v) == DivideScalar(v, OrOne(Length(v)))
\* Vector3.applyAxisAngle about the x axis and about the y axis; c and s are
\* the cosine and the sine of the angle.
RotateX(v, c, s) ==
    Vector3(v.x,
            Sub(Mul(v.y, c), Mul(v.z, s)),
            Add(Mul(v.y, s), Mul(v.z, c)))
RotateY(v, c, s) ==
    Vector3(Add(Mul(v.x, c), Mul(v.z, s)),
            v.y,
            Sub(Mul(v.z, c), Mul(v.x, s)))
ApplyAxisAngleX(v, a) == RotateX(v, Cos(a), Sin(a))
ApplyAxisAngleY(v, a) == RotateY(v, Cos(a), Sin(a))
IsFinite3(v) == IsFinite(v.x) /\ IsFinite(v.y) /\ IsFinite(v.z)
HasNaN3(v) == isNaN(v.x) \/ isNaN(v.y) \/ isNaN(v.z)

(***************************************************************************)
(* Program constants, in fixed-point units (1000 per 1.0) unless a count.  *)
(* MAX_PARTICLES, ERUPTION_DURATION and ERUPTION_COOLDOWN are 1000, 100    *)
(* and 200 in the source; the model runs them scaled down.                 *)
(***************************************************************************)
MAX_PARTICLES == 2
MAGNETIC_TILT == 314
JUPITER_ROTATION_SPEED == 2
MAGNETIC_FIELD_STRENGTH == 200
TORUS_RADIUS == 10000
MAX_DISTANCE == 30000
MIN_DISTANCE == 3000
ERUPTION_DURATION == 2
ERUPTION_COOLDOWN == 3
ERUPTION_CHANCE == 5
PARTICLES_PER_FRAME_DURING_ERUPTION == 5
BASE_EMISSION_RATE == 100
IO_ORBIT_RADIUS == 12000
IO_ORBIT_SPEED == 5
maxSpeed == 200

\* Frames the model runs from the mounted state.
MaxTicks == 7

\* getMagneticFieldVector is evaluated at the positions with whole
\* coordinates in -ProbeRange .. ProbeRange.
ProbeRange == 2

\* The values a call of Math.random() may return (in [0, 1)).
Rand == {0, 999}

\* The values the three calls of Math.random() for a position (one per
\* axis) may return together, and those of the four calls for a new
\* particle (the three axes, then the speed): the extremes, and for the
\* runs of many frames one value in between.
AxisDraws == {<<0, 0, 0>>, <<999, 999, 999>>, <<0, 500, 999>>}
SpawnDraws == {<<0, 0, 0, 0>>, <<999, 999, 999, 999>>, <<999, 500, 0, 500>>}
MidAxisDraws == {<<250, 500, 750>>}
MidSpawnDraws == {<<250, 500, 750, 500>>}

Slots == 0 .. MAX_PARTICLES - 1

(***************************************************************************)
(* getMagneticFieldVector(position, jupiterRotation)                       *)
(***************************************************************************)
\* field.divideScalar(r5) with r5 = r2 * r2 * r: r5 itself exceeds the
\* integer range at the outer distances, so the division is carried out by
\* its three factors in turn.
DivideByR5(field, r, r2) == DivideScalar(DivideScalar(DivideScalar(field, r2), r2), r)

\* DipoleField with 3 r in place of 3 (m.r) r, a field that is not even in
\* the position.  FieldEven does not hold of it.
DipoleFieldOdd(magneticPos, r, m) ==
    DivideByR5(VSub(MultiplyScalar(magneticPos, 3 * SCALE),
                    MultiplyScalar(m, Mul(r, r))),
               r, Mul(r, r))

\* The dipole field at magneticPos (the position in magnetic coordinates),
\* still in magnetic coordinates: (3 (m.r) r - r^2 m) / r^5.
DipoleField(magneticPos, r, m) ==
    DivideByR5(VSub(MultiplyScalar(magneticPos, Mul(3 * SCALE, Dot(m, magneticPos))),
                    MultiplyScalar(m, Mul(r, r))),
               r, Mul(r, r))

MagneticPos(position, jupiterRotation) ==
    ApplyAxisAngleY(ApplyAxisAngleX(position, MAGNETIC_TILT), jupiterRotation)

WorldField(field, jupiterRotation) ==
    ApplyAxisAngleX(ApplyAxisAngleY(field, Neg(jupiterRotation)), Neg(MAGNETIC_TILT))

FieldAt(magneticPos, jupiterRotation) ==
    WorldField(DipoleField(magneticPos, Length(magneticPos), Vector3(0, SCALE, 0)),
               jupiterRotation)

getMagneticFieldVector(position, jupiterRotation) ==
    MultiplyScalar(FieldAt(MagneticPos(position, jupiterRotation), jupiterRotation),
                   MAGNETIC_FIELD_STRENGTH)


(***************************************************************************)
(* State.                                                                  *)
(*   positions, velocities, colors   the Float32Array buffers, one         *)
(*                                   Vector3 per slot                      *)
(*   activeParticles                 particleSystemRef.current             *)
(*                                   .activeParticles                      *)
(*   eruption                        eruption.current                      *)
(*   angle, rotationY, ioPos         animate's angle, jupiter.rotation.y,  *)
(*                                   io.moon.position                      *)
(*   pc, frame                       where the running call of animate     *)
(*                                   stands, and its locals: the           *)
(*                                   destructured activeParticles and the  *)
(*                                   loop indices e and i                  *)
(*   obs                             a record of what the running (or the  *)
(*                                   last) frame did, kept for the         *)
(*                                   properties; the program has no such   *)
(*                                   state and no action reads it          *)
(*   probe                           an evaluation of                      *)
(*                                   getMagneticFieldVector on its own     *)
(***************************************************************************)
VARIABLES positions, velocities, colors, activeParticles, eruption,
          angle, rotationY, ioPos, pc, frame, obs, probe

vars == <<positions, velocities, colors, activeParticles, eruption,
          angle, rotationY, ioPos, pc, frame, obs, probe>>

\* The colour every slot is initialised to, and the two emission colours.
InitColor == Vector3(1000, 500, 200)
EruptionColor == Vector3(1000, 700, 300)
BackgroundColor == Vector3(1000, 500, 200)

Particle(p, v, c) == [position |-> p, velocity |-> v, color |-> c]

\* obs:
\*   wasActive   eruption.current.isActive when the frame began
\*   started     the frame started an eruption
\*   sinceStart  frames begun since the frame that last started an eruption
\*               (-1: none did), counted up to the end of the cooldown and
\*               one more
\*   gap         sinceStart as it stood when the last eruption started
\*   spawns      the frame's spawns in order: the slot written and
\*               particleSystemRef.current.activeParticles just before
\*   everSpawned the slots that have ever received a spawned particle
\*   before      each slot's contents when the frame's update loop began
\*   path        the path the update loop took for each slot: "none" (not
\*               reached yet), "invalid", "bounds", "moved", "badvelocity"
NoObs ==
    [wasActive |-> FALSE, started |-> FALSE, sinceStart |-> -1, gap |-> -1,
     spawns |-> <<>>, everSpawned |-> {},
     before |-> [s \in Slots |-> Particle(Zero3, Zero3, InitColor)],
     path |-> [s \in Slots |-> "none"]]

NoProbe == [position |-> Zero3, rotation |-> 0, done |-> FALSE,
            field |-> Zero3, fieldNeg |-> Zero3]

Quiet == [isActive |-> FALSE, countdown |-> 0, cooldown |-> 0]

\* The state after the component has mounted: the buffers as the
\* initialisation loop leaves them, no active particle, no eruption.
Init ==
    /\ positions = [s \in Slots |-> Zero3]
    /\ velocities = [s \in Slots |-> Zero3]
    /\ colors = [s \in Slots |-> InitColor]
    /\ activeParticles = 0
    /\ eruption = Quiet
    /\ angle = 0
    /\ rotationY = 0
    /\ ioPos = Zero3
    /\ pc = "frame"
    /\ frame = [activeParticles |-> 0, e |-> 0, i |-> 0]
    /\ obs = NoObs
    /\ probe = NoProbe

(***************************************************************************)
(* The start of animate: the rotation, Io's position, the destructuring of *)
(* particleSystemRef.current, and the update of the eruption state.        *)
(***************************************************************************)
IoPosition(a) ==
    Vector3(Mul(IO_ORBIT_RADIUS, Cos(a * IO_ORBIT_SPEED)),
            0,
            Mul(IO_ORBIT_RADIUS, Sin(a * IO_ORBIT_SPEED)))

\* Countdown with the test c < 0 for c <= 0: the eruption ends a frame late.
\* EruptionTiming does not hold of it.
CountdownLate(er) ==
    LET c == er.countdown - 1
    IN IF c < 0
       THEN [isActive |-> FALSE, countdown |-> c, cooldown |-> ERUPTION_COOLDOWN]
       ELSE [er EXCEPT !.countdown = c]

\* eruption.current after the countdown step of a frame in an eruption.
Countdown(er) ==
    LET c == er.countdown - 1
    IN IF c <= 0
       THEN [isActive |-> FALSE, countdown |-> c, cooldown |-> ERUPTION_COOLDOWN]
       ELSE [er EXCEPT !.countdown = c]

\* Quiescent with the roll for a new eruption made before the test of the
\* cooldown.  BackgroundOnlyWhenReady does not hold of it.
QuiescentRollsFirst(er, roll) ==
    IF roll < ERUPTION_CHANCE
    THEN [er EXCEPT !.isActive = TRUE, !.countdown = ERUPTION_DURATION]
    ELSE IF er.cooldown > 0 THEN [er EXCEPT !.cooldown = er.cooldown - 1]
    ELSE er

\* eruption.current after the step of a frame that is not in an eruption;
\* roll is the value Math.random() returns if it is called.
Quiescent(er, roll) ==
    IF er.cooldown > 0 THEN [er EXCEPT !.cooldown = er.cooldown - 1]
    ELSE IF roll < ERUPTION_CHANCE
         THEN [er EXCEPT !.isActive = TRUE, !.countdown = ERUPTION_DURATION]
         ELSE er

\* Branch as it would be if the emission code were chosen by isActive as the
\* step leaves it.  RegimeFromStartOfFrame does not hold of it.
BranchAfterStep(er, roll) ==
    IF er.isActive
    THEN (IF er.countdown - 1 <= 0 THEN "update" ELSE "erupt")
    ELSE IF er.cooldown > 0 THEN "update"
    ELSE IF roll < ERUPTION_CHANCE THEN "erupt"
    ELSE "background"

\* The emission code the frame runs after the step: the eruption loop,
\* the background emission, or none (straight to the update loop).
Branch(er, roll) ==
    IF er.isActive THEN "erupt"
    ELSE IF er.cooldown > 0 THEN "update"
    ELSE IF roll < ERUPTION_CHANCE THEN "update"
    ELSE "background"

Since(n, startsNow) ==
    IF startsNow THEN 0
    ELSE IF n < 0 \/ n > ERUPTION_DURATION + ERUPTION_COOLDOWN THEN n
    ELSE n + 1

Animate(limit) ==
    /\ pc = "frame"
    /\ angle < limit
    /\ \E roll \in (IF ~eruption.isActive /\ eruption.cooldown = 0 THEN Rand ELSE {0}) :
          LET er == IF eruption.isActive THEN Countdown(eruption)
                    ELSE Quiescent(eruption, roll)
              startsNow == ~eruption.isActive /\ er.isActive
          IN /\ eruption' = er
             /\ pc' = Branch(eruption, roll)
             /\ obs' = [obs EXCEPT !.wasActive = eruption.isActive,
                                   !.started = startsNow,
                                   !.sinceStart = Since(@, startsNow),
                                   !.gap = IF startsNow THEN obs.sinceStart ELSE @,
                                   !.spawns = <<>>,
                                   !.before = [s \in Slots |->
                                       Particle(positions[s], velocities[s], colors[s])],
                                   !.path = [s \in Slots |-> "none"]]
    /\ rotationY' = rotationY + JUPITER_ROTATION_SPEED
    /\ ioPos' = IoPosition(angle)
    /\ angle' = angle + 1
    /\ frame' = [activeParticles |-> activeParticles, e |-> 0, i |-> 0]
    /\ UNCHANGED <<positions, velocities, colors, activeParticles, probe>>

(***************************************************************************)
(* Emission.                                                               *)
(***************************************************************************)
\* The slot a new particle is written to: the frame's own (destructured)
\* activeParticles while that is below MAX_PARTICLES, else a random slot.
ParticleIndex(u) ==
    IF frame.activeParticles < MAX_PARTICLES THEN frame.activeParticles
    ELSE (u * MAX_PARTICLES) \div SCALE

\* particleSystemRef.current.activeParticles after a spawn.
Grown(n) == IF frame.activeParticles < MAX_PARTICLES THEN n + 1 ELSE n

\* Io's position plus, per axis, (Math.random() - 0.5) * spread.
SpawnPosition(u1, u2, u3, spread) ==
    Vector3(Add(ioPos.x, Mul(u1 - SCALE \div 2, spread)),
            Add(ioPos.y, Mul(u2 - SCALE \div 2, spread)),
            Add(ioPos.z, Mul(u3 - SCALE \div 2, spread)))

\* The velocity of a new particle: along its normalised position, at speed
\* base + Math.random() * range.
SpawnVelocity(position, u, base, range) ==
    MultiplyScalar(Normalize(position), base + Mul(u, range))

Spawn(index, position, velocity, color) ==
    /\ positions' = [positions EXCEPT ![index] = position]
    /\ velocities' = [velocities EXCEPT ![index] = velocity]
    /\ colors' = [colors EXCEPT ![index] = color]
    /\ activeParticles' = Grown(activeParticles)
    /\ obs' = [obs EXCEPT !.spawns = Append(@, [index |-> index,
                                                 count |-> activeParticles]),
                          !.everSpawned = @ \cup {index},
                          !.before = [@ EXCEPT ![index] =
                                          Particle(position, velocity, color)]]

\* The values Math.random() returns for the choice of a random slot, if
\* the spawn makes that call.
SlotDraws == IF frame.activeParticles < MAX_PARTICLES THEN {0} ELSE Rand

\* One pass of the eruption loop (e = frame.e).
EruptionAttempt(draws) ==
    /\ pc = "erupt"
    /\ \E u \in Rand :
          IF u < 800
          THEN \E us \in SlotDraws, d \in draws :
                  \E position \in {SpawnPosition(d[1], d[2], d[3], 1200)} :
                     Spawn(ParticleIndex(us), position,
                           SpawnVelocity(position, d[4], 40, 20), EruptionColor)
          ELSE UNCHANGED <<positions, velocities, colors, activeParticles, obs>>
    /\ frame' = [frame EXCEPT !.e = frame.e + 1]
    /\ pc' = IF frame.e + 1 < PARTICLES_PER_FRAME_DURING_ERUPTION
             THEN "erupt" ELSE "update"
    /\ UNCHANGED <<eruption, angle, rotationY, ioPos, probe>>

\* Background emission.
Background(draws) ==
    /\ pc = "background"
    /\ \E u \in Rand :
          IF u < BASE_EMISSION_RATE
          THEN \E us \in SlotDraws, d \in draws :
                  \E position \in {SpawnPosition(d[1], d[2], d[3], 800)} :
                     Spawn(ParticleIndex(us), position,
                           SpawnVelocity(position, d[4], 20, 10), BackgroundColor)
          ELSE UNCHANGED <<positions, velocities, colors, activeParticles, obs>>
    /\ pc' = "update"
    /\ UNCHANGED <<eruption, angle, rotationY, ioPos, frame, probe>>

(***************************************************************************)
(* The update loop, one slot at a time.                                    *)
(***************************************************************************)
\* The loop bound, Math.max(MAX_PARTICLES, activeParticles), from the
\* frame's own activeParticles.
numParticlesToUpdate ==
    IF frame.activeParticles > MAX_PARTICLES THEN frame.activeParticles
    ELSE MAX_PARTICLES

\* InvalidPosition without the guard.  FiniteAfterTick does not hold of it.
InvalidPositionNever(position) == FALSE

\* "Skip invalid particles": the guard on the stored position.
InvalidPosition(position) ==
    isNaN(position.x) \/ isNaN(position.y) \/ isNaN(position.z)

\* OutOfBounds without the test against MIN_DISTANCE.  BoundsReset does not
\* hold of it.
OutOfBoundsFarOnly(distance) == Gt(distance, MAX_DISTANCE)

\* "Check if particle is too far or too close".
OutOfBounds(distance) == Gt(distance, MAX_DISTANCE) \/ Lt(distance, MIN_DISTANCE)

\* The position a particle out of bounds is reset to.
ResetPosition(u1, u2, u3) == SpawnPosition(u1, u2, u3, 800)

\* velocity.add(force), "with safety check".
AddIfValid(velocity, force) ==
    IF ~isNaN(Length(force)) THEN VAdd(velocity, force) ELSE velocity

\* The magnetic force on the particle, velocity x B.  At the resolution of
\* SCALE the field is below one unit beyond a distance of about 6, and the
\* force is then (0, 0, 0).
MagneticForce(position, velocity) ==
    Cross(velocity, getMagneticFieldVector(position, rotationY))

\* Corotation with Jupiter's magnetic field.
Corotation(position) ==
    LET corotationSpeed ==
            Mul(JUPITER_ROTATION_SPEED,
                Sub(SCALE, Exp(Neg(Div(Length(position), 15 * SCALE)))))
    IN MultiplyScalar(Normalize(Vector3(Neg(position.z), 0, position.x)),
                      corotationSpeed)

\* Radial containment towards the torus radius.
RadialStrength(distance) ==
    IF Gt(distance, TORUS_RADIUS)
    THEN Mul(-10, Sub(distance, TORUS_RADIUS))
    ELSE Mul(10, Sub(TORUS_RADIUS, distance))

AddRadialForce(position, radialStrength, velocity) ==
    IF ~isNaN(radialStrength)
    THEN VAdd(velocity, MultiplyScalar(Normalize(position), radialStrength))
    ELSE velocity

AddRadial(position, distance, velocity) ==
    AddRadialForce(position, RadialStrength(distance), velocity)

\* Vertical containment: velocity.y *= 0.95, then the force towards the
\* magnetic equator.
AddVertical(position, velocity) ==
    VAdd([velocity EXCEPT !.y = Mul(@, 950)],
         Vector3(0, Mul(Neg(position.y), 20), 0))

\* The velocity after all forces, before the limit.
Accelerated(position, velocity) ==
    AddVertical(position,
        AddRadial(position, Length(position),
            AddIfValid(AddIfValid(velocity, MagneticForce(position, velocity)),
                       Corotation(position))))

\* "Limit maximum velocity".
LimitTo(velocity, currentSpeed) ==
    IF Gt(currentSpeed, maxSpeed)
    THEN MultiplyScalar(velocity, Div(maxSpeed, currentSpeed))
    ELSE velocity

\* LimitSpeed without the limit.  SpeedLimited does not hold of it.
LimitSpeedNone(velocity) == velocity

LimitSpeed(velocity) == LimitTo(velocity, Length(velocity))

\* ValidVelocity without the check.  BadVelocityReset does not hold of it.
ValidVelocityAlways(velocity) == TRUE

\* "Safety check before updating position".
ValidVelocity(velocity) == ~isNaN(Length(velocity))

\* "Update color based on ionization (distance from Io)".
\* Ionization without Math.min(1, .).  ColorRange does not hold of it.
IonizationUnclamped(distanceFromIo) == Div(distanceFromIo, 5 * SCALE)

Ionization(distanceFromIo) == MathMin(SCALE, Div(distanceFromIo, 5 * SCALE))

ColorOf(ionization) ==
    Vector3(MathMax(200, Sub(SCALE, ionization)),
            Add(300, Mul(ionization, 200)),
            Add(200, Mul(ionization, 800)))

IonizationColor(position) == ColorOf(Ionization(Length(VSub(position, ioPos))))

\* One pass of the update loop over a slot holding (position, velocity,
\* color): the slot's new contents and the path taken through the body.
\* u1, u2, u3 are the values Math.random() returns on the bounds reset.
\* The end of the loop body, from the limited velocity on: the "safety check
\* before updating position", then the integration and the colour, or the
\* reset to Io.
Integrate(position, velocity, color) ==
    IF ValidVelocity(velocity)
    THEN [position |-> VAdd(position, velocity), velocity |-> velocity,
          color |-> IonizationColor(VAdd(position, velocity)), path |-> "moved"]
    ELSE [position |-> ioPos, velocity |-> Zero3, color |-> color,
          path |-> "badvelocity"]

UpdateSlot(position, velocity, color, u1, u2, u3) ==
    IF InvalidPosition(position)
    THEN [position |-> ioPos, velocity |-> Zero3, color |-> color, path |-> "invalid"]
    ELSE IF OutOfBounds(Length(position))
    THEN [position |-> ResetPosition(u1, u2, u3), velocity |-> Zero3,
          color |-> color, path |-> "bounds"]
    ELSE Integrate(position, LimitSpeed(Accelerated(position, velocity)), color)

\* Whether the pass over a slot calls Math.random().
UsesRandom(position) ==
    ~InvalidPosition(position) /\ OutOfBounds(Length(position))

UpdateParticle(draws) ==
    /\ pc = "update"
    /\ frame.i < numParticlesToUpdate
    /\ IF frame.i \in Slots
       THEN \E d \in (IF UsesRandom(positions[frame.i]) THEN draws
                      ELSE {<<0, 0, 0>>}) :
               \E new \in {UpdateSlot(positions[frame.i], velocities[frame.i],
                                      colors[frame.i], d[1], d[2], d[3])} :
                  /\ positions' = [positions EXCEPT ![frame.i] = new.position]
                  /\ velocities' = [velocities EXCEPT ![frame.i] = new.velocity]
                  /\ colors' = [colors EXCEPT ![frame.i] = new.color]
                  /\ obs' = [obs EXCEPT !.path = [@ EXCEPT ![frame.i] = new.path]]
       \* An index past the buffers reads undefined, which isNaN takes for
       \* invalid; the stores past the end of a typed array are dropped.
       ELSE UNCHANGED <<positions, velocities, colors, obs>>
    /\ frame' = [frame EXCEPT !.i = frame.i + 1]
    /\ pc' = IF frame.i + 1 < numParticlesToUpdate THEN "update" ELSE "frame"
    /\ UNCHANGED <<activeParticles, eruption, angle, rotationY, ioPos, probe>>

(***************************************************************************)
(* The program: frames one after the other from the mounted state.         *)
(***************************************************************************)
Next ==
    \/ Animate(MaxTicks)
    \/ EruptionAttempt(MidSpawnDraws)
    \/ Background(MidSpawnDraws)
    \/ UpdateParticle(MidAxisDraws)

Spec == Init /\ [][Next]_vars

(***************************************************************************)
(* One frame from any contents of a slot.  A Float32Array element can hold *)
(* any number, NaN and the infinities included: one slot starts with any   *)
(* of the positions and velocities below, the others as initialised; the   *)
(* frame runs with or without an eruption, growing or at capacity.         *)
(***************************************************************************)
AnyPositions ==
    { Vector3(NaN, 0, 0), Vector3(12000, NaN, 500),
      Vector3(PosInf, 0, 0), Vector3(0, NegInf, 5000),
      Vector3(40000, 0, 0), Vector3(0, 0, 0), Vector3(1000, 2000, 0),
      Vector3(12000, 0, 0), Vector3(-9000, 500, 3000), Vector3(0, 20000, 0),
      Vector3(3100, -200, 100) }

AnyVelocities ==
    { Zero3, Vector3(30, -10, 20), Vector3(300, 400, -100),
      Vector3(40000, 0, 0), Vector3(NaN, 0, 0), Vector3(0, PosInf, 0),
      Vector3(NegInf, PosInf, 10), Vector3(10, 20, NegInf) }

InitFrame ==
    /\ \E k \in Slots, p \in AnyPositions, v \in AnyVelocities :
          /\ positions = [s \in Slots |-> IF s = k THEN p ELSE Zero3]
          /\ velocities = [s \in Slots |-> IF s = k THEN v ELSE Zero3]
    /\ colors = [s \in Slots |-> InitColor]
    /\ activeParticles \in {0, MAX_PARTICLES}
    /\ eruption \in {Quiet, [isActive |-> TRUE, countdown |-> ERUPTION_DURATION,
                             cooldown |-> 0]}
    /\ angle = 0
    /\ rotationY = 0
    /\ ioPos = Zero3
    /\ pc = "frame"
    /\ frame = [activeParticles |-> 0, e |-> 0, i |-> 0]
    /\ obs = NoObs
    /\ probe = NoProbe

NextFrame ==
    \/ Animate(1)
    \/ EruptionAttempt(SpawnDraws)
    \/ Background(SpawnDraws)
    \/ UpdateParticle(AxisDraws)

SpecFrame == InitFrame /\ [][NextFrame]_vars

(***************************************************************************)
(* getMagneticFieldVector on its own: the field at a position and at the   *)
(* opposite position, for one rotation of Jupiter.                         *)
(***************************************************************************)
ProbePositions ==
    { Vector3(a * SCALE, b * SCALE, c * SCALE) :
        a \in -ProbeRange .. ProbeRange, b \in -ProbeRange .. ProbeRange,
        c \in -ProbeRange .. ProbeRange } \ {Zero3}

ProbeRotations == {0, 2, 500, -700, 1500}

InitField ==
    /\ positions = [s \in Slots |-> Zero3]
    /\ velocities = [s \in Slots |-> Zero3]
    /\ colors = [s \in Slots |-> InitColor]
    /\ activeParticles = 0
    /\ eruption = Quiet
    /\ angle = 0
    /\ rotationY = 0
    /\ ioPos = Zero3
    /\ pc = "frame"
    /\ frame = [activeParticles |-> 0, e |-> 0, i |-> 0]
    /\ obs = NoObs
    /\ \E p \in ProbePositions, a \in ProbeRotations :
          probe = [position |-> p, rotation |-> a, done |-> FALSE,
                   field |-> Zero3, fieldNeg |-> Zero3]

Probe ==
    /\ ~probe.done
    /\ probe' = [probe EXCEPT
                   !.done = TRUE,
                   !.field = getMagneticFieldVector(probe.position, probe.rotation),
                   !.fieldNeg = getMagneticFieldVector(VNeg(probe.position), probe.rotation)]
    /\ UNCHANGED <<positions, velocities, colors, activeParticles, eruption,
                   angle, rotationY, ioPos, pc, frame, obs>>

SpecField == InitField /\ [][Probe]_vars

(***************************************************************************)
(* Properties.                                                             *)
(***************************************************************************)
\* A frame has run to its end.
FrameDone == pc = "frame" /\ angle > 0

\* The update loop of the running frame has passed slot s.
Processed(s) == obs.path[s] # "none"

\* p is Io's position plus, per axis, an offset of at most 0.4.
NearIo(p) ==
    /\ IsFinite3(p)
    /\ Abs(p.x - ioPos.x) <= 400
    /\ Abs(p.y - ioPos.y) <= 400
    /\ Abs(p.z - ioPos.z) <= 400

\* The distance of p from the origin is a number above MAX_DISTANCE or below
\* MIN_DISTANCE.
FarOrClose(p) ==
    /\ ~HasNaN3(p)
    /\ \/ Length(p) > MAX_DISTANCE
       \/ Length(p) < MIN_DISTANCE

\* C1 (as the specification states it): activeParticles is never below the
\* value it had when the running frame began and never exceeds
\* MAX_PARTICLES.  The program
\* violates it: the eruption loop tests the frame's own copy of
\* activeParticles, which stays below MAX_PARTICLES while each spawn
\* increments the counter.
CountBounded ==
    /\ activeParticles >= frame.activeParticles
    /\ activeParticles <= MAX_PARTICLES

\* C2: from the frame that starts an eruption (sinceStart = 0, countdown =
\* ERUPTION_DURATION) isActive holds for the next ERUPTION_DURATION - 1
\* frames with the countdown falling by one a frame; the frame
\* ERUPTION_DURATION after the start clears isActive and sets cooldown =
\* ERUPTION_COOLDOWN; each of the next ERUPTION_COOLDOWN frames lowers the
\* cooldown by one and starts nothing; and an eruption never starts sooner
\* than ERUPTION_DURATION + ERUPTION_COOLDOWN + 1 frames after the last
\* start, whatever Math.random() returns.
EruptionTiming ==
    /\ obs.sinceStart = -1 => ~eruption.isActive
    /\ (obs.sinceStart >= 0 /\ obs.sinceStart < ERUPTION_DURATION) =>
          /\ eruption.isActive
          /\ eruption.countdown = ERUPTION_DURATION - obs.sinceStart
    /\ obs.sinceStart = ERUPTION_DURATION =>
          /\ ~eruption.isActive
          /\ eruption.cooldown = ERUPTION_COOLDOWN
    /\ (obs.sinceStart > ERUPTION_DURATION
          /\ obs.sinceStart <= ERUPTION_DURATION + ERUPTION_COOLDOWN) =>
          /\ ~eruption.isActive
          /\ eruption.cooldown =
                ERUPTION_COOLDOWN - (obs.sinceStart - ERUPTION_DURATION)
    /\ obs.sinceStart > ERUPTION_DURATION + ERUPTION_COOLDOWN =>
          /\ ~eruption.isActive
          /\ eruption.cooldown = 0
    /\ obs.gap # -1 => obs.gap >= ERUPTION_DURATION + ERUPTION_COOLDOWN

\* A second eruption has just started, on the first frame the cooldown of
\* the one before allows.
EruptionRestartsAtOnce ==
    /\ obs.started
    /\ eruption.isActive
    /\ eruption.countdown = ERUPTION_DURATION
    /\ obs.gap = ERUPTION_DURATION + ERUPTION_COOLDOWN

\* C3: at the end of a frame every slot's position and velocity are finite,
\* whatever the slot held when the frame began.
FiniteAfterTick ==
    FrameDone => \A s \in Slots : IsFinite3(positions[s]) /\ IsFinite3(velocities[s])

\* A frame has ended on a slot whose position and velocity were both not
\* finite when its update began.
CorruptSlotRestored ==
    /\ FrameDone
    /\ \E s \in Slots :
          /\ ~IsFinite3(obs.before[s].position)
          /\ ~IsFinite3(obs.before[s].velocity)
          /\ IsFinite3(positions[s])
          /\ IsFinite3(velocities[s])

\* C4: at the end of a frame every slot's velocity is finite and no longer
\* than maxSpeed; a slot that was reset stores (0, 0, 0); and a slot that
\* was moved stores the accelerated velocity, unchanged if that is within
\* maxSpeed and else shortened with the sign of every component kept.
SpeedLimited ==
    FrameDone =>
       \A s \in Slots :
          /\ IsFinite3(velocities[s])
          /\ Length(velocities[s]) <= maxSpeed
          /\ obs.path[s] \in {"invalid", "bounds", "badvelocity"} =>
                velocities[s] = Zero3
          /\ obs.path[s] = "moved" =>
                \E a \in {Accelerated(obs.before[s].position, obs.before[s].velocity)} :
                   /\ IsFinite3(a)
                   /\ Length(a) <= maxSpeed => velocities[s] = a
                   /\ Sgn(velocities[s].x) \in {0, Sgn(a.x)}
                   /\ Sgn(velocities[s].y) \in {0, Sgn(a.y)}
                   /\ Sgn(velocities[s].z) \in {0, Sgn(a.z)}
                   /\ Abs(velocities[s].x) <= Abs(a.x)
                   /\ Abs(velocities[s].y) <= Abs(a.y)
                   /\ Abs(velocities[s].z) <= Abs(a.z)

\* A frame has ended on a slot that was moved after its accelerated velocity
\* exceeded maxSpeed.
FastSlotClamped ==
    /\ FrameDone
    /\ \E s \in Slots :
          /\ obs.path[s] = "moved"
          /\ Length(Accelerated(obs.before[s].position, obs.before[s].velocity))
                > maxSpeed
          /\ velocities[s] # Zero3

\* C5: every colour channel of every slot is in [0, 1] at all times; at the
\* end of a frame a slot that was moved has r in [0.2, 1], g in [0.3, 0.5]
\* and b in [0.2, 1], and a slot that was reset has the colour it had when
\* its update began.
ColorRange ==
    /\ \A s \in Slots :
          /\ IsFinite3(colors[s])
          /\ colors[s].x >= 0 /\ colors[s].x <= SCALE
          /\ colors[s].y >= 0 /\ colors[s].y <= SCALE
          /\ colors[s].z >= 0 /\ colors[s].z <= SCALE
    /\ FrameDone =>
          \A s \in Slots :
             /\ obs.path[s] = "moved" =>
                   /\ colors[s].x >= 200 /\ colors[s].x <= 1000
                   /\ colors[s].y >= 300 /\ colors[s].y <= 500
                   /\ colors[s].z >= 200 /\ colors[s].z <= 1000
             /\ obs.path[s] \in {"invalid", "bounds", "badvelocity"} =>
                   colors[s] = obs.before[s].color

\* A frame has ended on a slot that was moved to 5 or more from Io and
\* recoloured with ionization = 1.
FullyIonized ==
    /\ FrameDone
    /\ \E s \in Slots :
          /\ obs.path[s] = "moved"
          /\ Length(VSub(positions[s], ioPos)) >= 5 * SCALE
          /\ colors[s] = Vector3(200, 500, 1000)
          /\ colors[s] # obs.before[s].color

\* C6 (as the specification states it): the field at -p is the negation of
\* the field at p.
FieldAntiparallel == probe.done => probe.fieldNeg = VNeg(probe.field)

\* C6 (as the program has it): the field at -p equals the field at p, for
\* every position p other than the origin and every rotation.
FieldEven == probe.done => probe.fieldNeg = probe.field

\* The field has been evaluated at p and at -p, and is not zero.
FieldProbed == probe.done /\ probe.field # Zero3 /\ probe.fieldNeg # Zero3

\* C7: a slot whose position is finite and farther than MAX_DISTANCE from
\* the origin, or nearer than MIN_DISTANCE, leaves the update loop at Io's
\* position plus at most 0.4 per axis, with velocity (0, 0, 0) and the
\* colour it had: no force, no integration, no recolouring.
BoundsReset ==
    \A s \in Slots :
       (Processed(s) /\ IsFinite3(obs.before[s].position)
          /\ FarOrClose(obs.before[s].position)) =>
             /\ obs.path[s] = "bounds"
             /\ NearIo(positions[s])
             /\ velocities[s] = Zero3
             /\ colors[s] = obs.before[s].color

\* The update loop has passed a slot that was moving at a finite position
\* beyond MAX_DISTANCE.
FarSlotReset ==
    \E s \in Slots :
       /\ obs.path[s] = "bounds"
       /\ IsFinite3(obs.before[s].position)
       /\ Length(obs.before[s].position) > MAX_DISTANCE
       /\ obs.before[s].velocity # Zero3
       /\ velocities[s] = Zero3

\* C8 (as the specification states it): a slot whose velocity has a
\* component that is not finite leaves the update loop exactly at Io's
\* position with velocity (0, 0, 0) and the colour it had, wherever it was.
BadVelocityToSource ==
    \A s \in Slots :
       (Processed(s) /\ ~IsFinite3(obs.before[s].velocity)) =>
          /\ positions[s] = ioPos
          /\ velocities[s] = Zero3
          /\ colors[s] = obs.before[s].color

\* C8 (as the program has it): such a slot leaves the update loop with
\* velocity (0, 0, 0) and the colour it had; its position is exactly Io's
\* unless its position was a number out of bounds, and then the bounds
\* guard, which comes first, has put it at Io's position plus at most 0.4
\* per axis.
BadVelocityReset ==
    \A s \in Slots :
       (Processed(s) /\ ~IsFinite3(obs.before[s].velocity)) =>
          /\ velocities[s] = Zero3
          /\ colors[s] = obs.before[s].color
          /\ IF FarOrClose(obs.before[s].position)
             THEN obs.path[s] = "bounds" /\ NearIo(positions[s])
             ELSE positions[s] = ioPos

\* The update loop has passed a slot within bounds whose velocity was not
\* finite, through the final velocity check.
BadVelocitySlotReset ==
    \E s \in Slots :
       /\ obs.path[s] = "badvelocity"
       /\ ~IsFinite3(obs.before[s].velocity)
       /\ IsFinite3(obs.before[s].position)
       /\ positions[s] = ioPos
       /\ velocities[s] = Zero3

\* C9 (as the specification states it): while activeParticles is below
\* MAX_PARTICLES a spawn writes the slot whose index is activeParticles,
\* and at the end of every frame the slots below activeParticles are the
\* slots that have received a particle.  The program violates it: every
\* spawn of a frame writes the slot given by the frame's own copy of
\* activeParticles.
GrowthFillsConsecutiveSlots ==
    /\ \A k \in 1 .. Len(obs.spawns) :
          obs.spawns[k].count < MAX_PARTICLES =>
             obs.spawns[k].index = obs.spawns[k].count
    /\ FrameDone => obs.everSpawned = 0 .. activeParticles - 1

LoopBoundIsCapacity ==
    /\ numParticlesToUpdate = MAX_PARTICLES
    /\ pc = "update" => frame.i \in Slots

\* C12 (as the specification states it): a slot that no spawn has written
\* holds its initial position (0, 0, 0), velocity (0, 0, 0) and colour.  The
\* program violates it: (0, 0, 0) is nearer to the origin than
\* MIN_DISTANCE, so the bounds guard of the first frame moves every such
\* slot to Io, and the frames after it accelerate, move and recolour it.
IdleSlotsFixed ==
    \A s \in Slots \ obs.everSpawned :
       /\ positions[s] = Zero3
       /\ velocities[s] = Zero3
       /\ colors[s] = InitColor

\* C13: a frame reaches the background emission only if it began with no
\* eruption active and cooldown = 0 and its roll started no eruption (the
\* eruption state is then unchanged), and the background emission spawns
\* at most one particle, into at most one slot; a frame that begins in
\* cooldown lowers the cooldown by exactly one, changes nothing else of the
\* eruption state, and goes straight to the update loop; a frame that
\* starts an eruption goes straight to the update loop; and no step outside
\* the eruption loop and the background emission spawns or changes
\* activeParticles.
BackgroundOnlyWhenReady ==
    [][/\ (pc = "frame" /\ angle' # angle) =>
             /\ (~eruption.isActive /\ eruption.cooldown > 0) =>
                   /\ eruption' = [eruption EXCEPT !.cooldown = eruption.cooldown - 1]
                   /\ pc' = "update"
             /\ pc' = "background" =>
                   /\ ~eruption.isActive
                   /\ eruption.cooldown = 0
                   /\ eruption' = eruption
             /\ (~eruption.isActive /\ eruption'.isActive) => pc' = "update"
             /\ UNCHANGED <<positions, velocities, colors, activeParticles>>
       /\ pc = "background" =>
             /\ pc' = "update"
             /\ eruption' = eruption
             /\ Len(obs'.spawns) <= 1
             /\ activeParticles' \in {activeParticles, activeParticles + 1}
             /\ Cardinality({s \in Slots : \/ positions'[s] # positions[s]
                                           \/ velocities'[s] # velocities[s]
                                           \/ colors'[s] # colors[s]}) <= 1
       /\ (activeParticles' # activeParticles \/ Len(obs'.spawns) > Len(obs.spawns)) =>
             pc \in {"erupt", "background"}
      ]_vars

\* The first frame after a whole eruption and its cooldown has started no
\* eruption and has spawned its one background particle.
BackgroundSpawnAfterCooldown ==
    /\ pc = "update"
    /\ frame.i = 0
    /\ ~obs.wasActive
    /\ ~obs.started
    /\ obs.sinceStart > ERUPTION_DURATION + ERUPTION_COOLDOWN
    /\ eruption = Quiet
    /\ Len(obs.spawns) = 1
====
